---- MODULE Spec2Model ----
(***************************************************************************)
(* Model of the sessh TypeScript SDK (src/unnamed/part_000, lines 1-181):  *)
(* the Process Invoker runSessh, the Response Mapper parseResponse and the *)
(* Client Facade SesshClient.                                              *)
(*                                                                         *)
(* Text is modelled as a sequence of tokens (each token a TLA+ string): a  *)
(* JavaScript string is the concatenation of its tokens, the empty string  *)
(* is <<>>.  A Buffer chunk is a sequence of byte tokens; ASCII tokens     *)
(* stand for themselves, and the two tokens "C3" "A9" are the two bytes of *)
(* one UTF-8 character.                                                    *)
(*                                                                         *)
(* An optional field (port?: number) is a sequence of length at most one:  *)
(* <<>> is undefined, <<v>> is the value v.                                *)
(***************************************************************************)
EXTENDS Integers, Sequences, FiniteSets, TLC

VARIABLES
  processEnv,   \* process.env of the calling process: variable name -> value
  constructed,  \* whether new SesshClient(options) has run
  options,      \* this.options of the facade: the object the caller passed
  optionsPassed,\* the values that object held when the constructor ran
  calls,        \* per call slot: the state of one facade method call
  nCalls        \* number of facade method calls issued so far

vars == <<processEnv, constructed, options, optionsPassed, calls, nCalls>>

----------------------------------------------------------------------------
(* Bounds of the model *)

\* number of facade method calls issued in one behaviour
MaxCalls == 2

----------------------------------------------------------------------------
(* Optional values and JavaScript truthiness *)

None == <<>>
Some(v) == <<v>>

\* if (x) for x?: number  (undefined and 0 are falsy; NaN is not modelled)
TruthyNum(x) == x # None /\ x[1] # 0

\* if (x) for x?: string  (undefined and "" are falsy)
TruthyStr(x) == x # None /\ x[1] # ""

----------------------------------------------------------------------------
(* Text *)

WS == {" ", "\n"}

RECURSIVE TrimStart(_)
TrimStart(s) ==
  IF s = <<>> THEN <<>>
  ELSE IF Head(s) \in WS THEN TrimStart(Tail(s)) ELSE s

RECURSIVE TrimEnd(_)
TrimEnd(s) ==
  IF s = <<>> THEN <<>>
  ELSE IF s[Len(s)] \in WS THEN TrimEnd(SubSeq(s, 1, Len(s) - 1)) ELSE s

\* String.prototype.trim
Trim(s) == TrimEnd(TrimStart(s))

\* whether text t occurs in text s (String.prototype.includes)
Contains(s, t) ==
  \E i \in 0..(Len(s) - Len(t)) : SubSeq(s, i + 1, i + Len(t)) = t

\* Buffer.prototype.toString() (UTF-8): the byte pair C3 A9 inside one chunk
\* decodes to one character; a lead byte or a continuation byte that has no
\* partner in the same chunk decodes to the replacement character U+FFFD.
RECURSIVE toString(_)
toString(d) ==
  IF d = <<>> THEN <<>>
  ELSE IF Head(d) = "C3" /\ Len(d) >= 2 /\ d[2] = "A9"
       THEN <<"e-acute">> \o toString(SubSeq(d, 3, Len(d)))
  ELSE IF Head(d) \in {"C3", "A9"}
       THEN <<"U+FFFD">> \o toString(Tail(d))
  ELSE <<Head(d)>> \o toString(Tail(d))

\* String(n) for an integer n of moderate size: its decimal numeral
String(n) == ToString(n)

----------------------------------------------------------------------------
(* JSON.parse (the runtime's decoder used by parseResponse, line 70) *)

\* string literals of the documents: token (with its quotes) -> decoded text
StrLit ==
  ("\"ok\"" :> "ok") @@ ("\"op\"" :> "op") @@ ("\"open\"" :> "open") @@
  ("\"run\"" :> "run") @@ ("\"status\"" :> "status") @@
  ("\"master\"" :> "master") @@ ("\"session\"" :> "session") @@
  ("\"error\"" :> "error") @@ ("\"yes\"" :> "yes")

\* number literals of the documents: token -> number
NumLit == ("0" :> 0) @@ ("1" :> 1) @@ ("50" :> 50)

JNull == [kind |-> "null", v |-> "null"]
JBool(b) == [kind |-> "boolean", v |-> b]
JNum(n) == [kind |-> "number", v |-> n]
JStr(s) == [kind |-> "string", v |-> s]
JArr(elems) == [kind |-> "array", v |-> elems]
JObj(members) == [kind |-> "object", v |-> members]

\* the result of a failed parse step (JSON.parse throws SyntaxError)
SyntaxError == [ok |-> FALSE, value |-> JNull, next |-> 0]
Parsed(val, nxt) == [ok |-> TRUE, value |-> val, next |-> nxt]

EmptyMembers == [k \in {} |-> JNull]
PutMember(members, k, val) ==
  [x \in (DOMAIN members) \cup {k} |-> IF x = k THEN val ELSE members[x]]

RECURSIVE ParseValue(_, _), ParseMembers(_, _, _), ParseElements(_, _, _)

\* value ::= literal | number | string | object | array, read from t[i]
ParseValue(t, i) ==
  IF i > Len(t) THEN SyntaxError
  ELSE IF t[i] = "null" THEN Parsed(JNull, i + 1)
  ELSE IF t[i] = "true" THEN Parsed(JBool(TRUE), i + 1)
  ELSE IF t[i] = "false" THEN Parsed(JBool(FALSE), i + 1)
  ELSE IF t[i] \in DOMAIN NumLit THEN Parsed(JNum(NumLit[t[i]]), i + 1)
  ELSE IF t[i] \in DOMAIN StrLit THEN Parsed(JStr(StrLit[t[i]]), i + 1)
  ELSE IF t[i] = "{" THEN
    IF i + 1 <= Len(t) /\ t[i + 1] = "}"
    THEN Parsed(JObj(EmptyMembers), i + 2)
    ELSE ParseMembers(t, i + 1, EmptyMembers)
  ELSE IF t[i] = "[" THEN
    IF i + 1 <= Len(t) /\ t[i + 1] = "]"
    THEN Parsed(JArr(<<>>), i + 2)
    ELSE ParseElements(t, i + 1, <<>>)
  ELSE SyntaxError

\* members ::= string ":" value ( "," members | "}" ); a repeated key keeps
\* its last value
ParseMembers(t, i, acc) ==
  IF i + 1 > Len(t) \/ t[i] \notin DOMAIN StrLit \/ t[i + 1] # ":"
  THEN SyntaxError
  ELSE
    LET r == ParseValue(t, i + 2) IN
    IF ~r.ok \/ r.next > Len(t) THEN SyntaxError
    ELSE
      LET acc2 == PutMember(acc, StrLit[t[i]], r.value) IN
      IF t[r.next] = "}" THEN Parsed(JObj(acc2), r.next + 1)
      ELSE IF t[r.next] = "," THEN ParseMembers(t, r.next + 1, acc2)
      ELSE SyntaxError

\* elements ::= value ( "," elements | "]" )
ParseElements(t, i, acc) ==
  LET r == ParseValue(t, i) IN
  IF ~r.ok \/ r.next > Len(t) THEN SyntaxError
  ELSE
    LET acc2 == Append(acc, r.value) IN
    IF t[r.next] = "]" THEN Parsed(JArr(acc2), r.next + 1)
    ELSE IF t[r.next] = "," THEN ParseElements(t, r.next + 1, acc2)
    ELSE SyntaxError

\* JSON.parse(text): whitespace between tokens is insignificant, and the
\* whole text must be exactly one value
JSONparse(text) ==
  LET t == SelectSeq(text, LAMBDA x : x \notin WS)
      r == ParseValue(t, 1)
  IN IF r.ok /\ r.next = Len(t) + 1
     THEN [ok |-> TRUE, value |-> r.value]
     ELSE [ok |-> FALSE, value |-> JNull]

----------------------------------------------------------------------------
(* Process Invoker: the Invocation Request built by runSessh *)

\* const sesshBin = options.sesshBin || "sessh"
sesshBin(opts) == IF TruthyStr(opts.sesshBin) THEN opts.sesshBin[1] ELSE "sessh"

\* env[name] = value on an object: adds the property or overwrites it
SetVar(env, name, value) ==
  [n \in (DOMAIN env) \cup {name} |-> IF n = name THEN value ELSE env[n]]

\* variant for C1: { SESSH_JSON: "1", ...process.env }, where a value the
\* caller's environment defines wins over the forced one
SpreadEnvCallerWins(penv) ==
  [n \in (DOMAIN penv) \cup {"SESSH_JSON"} |->
     IF n \in DOMAIN penv THEN penv[n] ELSE "1"]

\* const env = { ...process.env, SESSH_JSON: "1" }
SpreadEnv(penv) == SetVar(penv, "SESSH_JSON", "1")

\* variant for C7: env.SESSH_IDENTITY = options.identity ?? "", without the
\* test that the setting is configured
childEnvAlwaysSetsIdentity(opts, penv) ==
  LET env0 == SpreadEnv(penv)
      env1 == SetVar(env0, "SESSH_IDENTITY",
                     IF opts.identity = None THEN "" ELSE opts.identity[1])
  IN IF TruthyStr(opts.proxyjump)
     THEN SetVar(env1, "SESSH_PROXYJUMP", opts.proxyjump[1]) ELSE env1

\* variant for C24: const env = { SESSH_JSON: "1" }, without the spread of
\* process.env
childEnvNotInherited(opts, penv) ==
  LET env0 == [n \in {"SESSH_JSON"} |-> "1"]
      env1 == IF TruthyStr(opts.identity)
              THEN SetVar(env0, "SESSH_IDENTITY", opts.identity[1]) ELSE env0
  IN IF TruthyStr(opts.proxyjump)
     THEN SetVar(env1, "SESSH_PROXYJUMP", opts.proxyjump[1]) ELSE env1

\* the env object handed to spawn (lines 38-44)
childEnv(opts, penv) ==
  LET env0 == SpreadEnv(penv)
      env1 == IF TruthyStr(opts.identity)
              THEN SetVar(env0, "SESSH_IDENTITY", opts.identity[1]) ELSE env0
  IN IF TruthyStr(opts.proxyjump)
     THEN SetVar(env1, "SESSH_PROXYJUMP", opts.proxyjump[1]) ELSE env1

----------------------------------------------------------------------------
(* Response Mapper *)

Returned(val) == [threw |-> FALSE, value |-> val, message |-> <<>>]
Thrown(msg) == [threw |-> TRUE, value |-> JNull, message |-> msg]

\* variant for C28: a decoded payload whose ok field is false is raised as
\* an error
decodeChecksOk(result) ==
  LET parsed == JSONparse(result.stdout) IN
  IF ~parsed.ok
  THEN Thrown(<<"Invalid JSON from sessh: ">> \o result.stdout)
  ELSE IF /\ parsed.value.kind = "object"
          /\ "ok" \in DOMAIN parsed.value.v
          /\ parsed.value.v["ok"].kind = "boolean"
          /\ parsed.value.v["ok"].v = FALSE
  THEN Thrown(<<"sessh reported failure">>)
  ELSE Returned(parsed.value)

\* the decoding step of parseResponse (lines 69-73)
decode(result) ==
  LET parsed == JSONparse(result.stdout) IN
  IF parsed.ok
  THEN Returned(parsed.value)
  ELSE Thrown(<<"Invalid JSON from sessh: ">> \o result.stdout)

\* variant for C2: any text on standard error is taken for a failure
parseResponseStderrFails(result) ==
  IF result.stderr # <<>> \/ (result.code # 0 /\ result.stdout = <<>>)
  THEN Thrown(IF result.stderr # <<>>
              THEN result.stderr
              ELSE <<"sessh failed with exit code ", String(result.code)>>)
  ELSE decode(result)

\* variant for C3: the invocation failure always carries the generic message
parseResponseGenericMessage(result) ==
  IF result.code # 0 /\ result.stdout = <<>>
  THEN Thrown(<<"sessh failed with exit code ", String(result.code)>>)
  ELSE decode(result)

\* variant for C4: the decode failure does not quote the offending text
parseResponseNoRawText(result) ==
  IF result.code # 0 /\ result.stdout = <<>>
  THEN Thrown(IF result.stderr # <<>>
              THEN result.stderr
              ELSE <<"sessh failed with exit code ", String(result.code)>>)
  ELSE IF JSONparse(result.stdout).ok THEN decode(result)
  ELSE Thrown(<<"Invalid JSON from sessh">>)

\* variant for C17: every non-zero exit code is an invocation failure
parseResponseNonZeroFails(result) ==
  IF result.code # 0
  THEN Thrown(IF result.stderr # <<>>
              THEN result.stderr
              ELSE <<"sessh failed with exit code ", String(result.code)>>)
  ELSE decode(result)

\* variant for C27: an empty standard output is an invocation failure
\* whatever the exit code
parseResponseEmptyStdoutFails(result) ==
  IF result.stdout = <<>>
  THEN Thrown(IF result.stderr # <<>>
              THEN result.stderr
              ELSE <<"sessh failed with exit code ", String(result.code)>>)
  ELSE decode(result)

\* parseResponse(result), result = {code, stdout, stderr}
parseResponse(result) ==
  IF result.code # 0 /\ result.stdout = <<>>
  THEN Thrown(IF result.stderr # <<>>
              THEN result.stderr
              ELSE <<"sessh failed with exit code ", String(result.code)>>)
  ELSE decode(result)

----------------------------------------------------------------------------
(* Client Facade: the argument list of each operation *)

\* logs(lines: number = 300), pane(lines: number = 300)
DefaultLines == 300

\* open, status, close: [keyword, alias, host] and the port if (options.port)
portArgs(keyword, opts) ==
  LET args == <<keyword, opts.alias, opts.host>> IN
  IF TruthyNum(opts.port) THEN Append(args, String(opts.port[1])) ELSE args

\* variant for C11: the port appended as for open, after the text
textArgsWithPort(keyword, opts, text) ==
  LET args == <<keyword, opts.alias, opts.host, "--", text>> IN
  IF TruthyNum(opts.port) THEN Append(args, String(opts.port[1])) ELSE args

\* run, keys: [keyword, alias, host, "--", text]
textArgs(keyword, opts, text) == <<keyword, opts.alias, opts.host, "--", text>>

\* variant for C12: String(lines || 300), where 0 also takes the default
linesArgsFalsyDefault(keyword, opts, lines) ==
  <<keyword, opts.alias, opts.host,
    String(IF TruthyNum(lines) THEN lines[1] ELSE DefaultLines)>>

\* logs, pane: [keyword, alias, host, String(lines)]; an omitted argument
\* (undefined) takes the default
linesArgs(keyword, opts, lines) ==
  <<keyword, opts.alias, opts.host,
    String(IF lines = None THEN DefaultLines ELSE lines[1])>>

----------------------------------------------------------------------------
(* Inputs: Session Configurations, caller environments, operation arguments,
   and what the operating system and the external binary may do *)

Options(alias, host, port, bin, identity, proxyjump) ==
  [alias |-> alias, host |-> host, port |-> port, sesshBin |-> bin,
   identity |-> identity, proxyjump |-> proxyjump]

\* the options object before the facade exists
NoOptions == Options("", "", None, None, None, None)

PortValues == {None, Some(0), Some(22), Some(2222)}
BinValues == {None, Some(""), Some("/opt/sessh")}
IdentityValues == {None, Some(""), Some("~/.ssh/id_ed25519")}
ProxyjumpValues == {None, Some(""), Some("bastion")}

\* every combination of the optional settings
AllOptions ==
  {Options("agent", "user@host", p, b, i, j) :
     p \in PortValues, b \in BinValues, i \in IdentityValues,
     j \in ProxyjumpValues}

\* a few configurations, used where the child's behaviour is explored in full
SomeOptions ==
  {Options("agent", "user@host", None, None, None, None),
   Options("agent", "user@host", Some(2222), Some("/opt/sessh"),
           Some("~/.ssh/id_ed25519"), Some("bastion"))}

BaseEnv == [n \in {"PATH"} |-> "/usr/bin"]

\* what the caller's environment may already define for the wrapper's variables
CallerDefines ==
  ("SESSH_JSON" :> "0") @@ ("SESSH_IDENTITY" :> "/caller/key") @@
  ("SESSH_PROXYJUMP" :> "callerhop")

EnvWith(names) ==
  [n \in (DOMAIN BaseEnv) \cup names |->
     IF n \in names THEN CallerDefines[n] ELSE BaseEnv[n]]

AllEnvs == {EnvWith(names) : names \in SUBSET (DOMAIN CallerDefines)}
SomeEnvs == {EnvWith({}), EnvWith(DOMAIN CallerDefines)}

\* command and key-sequence strings
Texts == {"", "-rf", "echo hi"}
SomeTexts == {"echo hi"}

\* the lines argument of logs and pane: omitted, or a number
LinesValues == {None, Some(0), Some(50)}
SomeLinesValues == {None, Some(50)}

\* what the child writes to standard output, as the chunks the runtime delivers
OkOpen ==
  <<"{", "\"ok\"", ":", "true", ",", "\"op\"", ":", "\"open\"", "}">>

StdoutScripts ==
  { <<>>,
    << OkOpen \o <<"\n">> >>,
    << <<"{", "\"ok\"", ":", "false", ",">>,
       <<" ", "\"op\"", ":", "\"run\"", "}", "\n">> >>,
    << <<"{", "\"ok\"", ":", "true", ",", "\"op\"", ":", "\"status\"", ",",
         "\"master\"", ":", "1", ",", "\"session\"", ":", "1", "}">> >>,
    << <<"not", " ", "json">> >>,
    << <<"\n">> >>,
    << <<"1">> >>,
    << <<"null">> >>,
    << <<"{", "}">> >>,
    << <<"{", "\"ok\"", ":", "\"yes\"", ",", "\"op\"", ":", "1", "}">> >>,
    << <<"C3">>, <<"A9">> >> }

\* what the child writes to standard error
StderrScripts ==
  { <<>>,
    << <<"connection", " ", "refused", "\n">> >>,
    << <<"\n">> >> }

\* the code the runtime passes to the close handler: null (the child was
\* ended by a signal) or the exit status
ExitCodes == {None, Some(0), Some(1), Some(2)}

\* what spawn() does: the child starts; the binary cannot be started and the
\* runtime emits an 'error' event on the ChildProcess afterwards (ENOENT,
\* EACCES); or spawn() throws (an argument holds a NUL byte, E2BIG, ...)
Behaviour(spawn, out, err) == [spawn |-> spawn, out |-> out, err |-> err]

Behaviours ==
  {Behaviour("started", out, err) : out \in StdoutScripts, err \in StderrScripts}
  \cup {Behaviour("error", <<>>, <<>>), Behaviour("throws", <<>>, <<>>)}

\* the outcomes of spawn() alone, for the specification of the request
SpawnBehaviours ==
  {Behaviour("started", << OkOpen >>, <<>>),
   Behaviour("error", <<>>, <<>>), Behaviour("throws", <<>>, <<>>)}

\* the error spawn() throws
SpawnThrowMessage == <<"spawn failed">>

\* the error attach() throws (lines 151-153)
AttachMessage ==
  <<"Interactive attach not supported via SDK. Use CLI: sessh attach">>

----------------------------------------------------------------------------
(* State of one facade method call *)

Slots == {1, 2}

NoEnv == [n \in {} |-> ""]

IdleCall ==
  [op |-> "none",          \* the facade method called
   input |-> None,         \* the argument the caller passed (None: omitted)
   phase |-> "idle",       \* position of the call, see the actions
   spawned |-> 0,          \* number of spawn() invocations of this call
   children |-> 0,         \* number of child processes they started
   bin |-> "",             \* spawn's arguments: the binary,
   args |-> <<>>,          \*   the argument list
   env |-> NoEnv,          \*   and options.env
   alive |-> FALSE,        \* the child process runs
   wroteOut |-> <<>>,      \* every chunk the child writes to standard output
   wroteErr |-> <<>>,      \* every chunk the child writes to standard error
   pipeOut |-> <<>>,       \* chunks of standard output not yet delivered
   pipeErr |-> <<>>,       \* chunks of standard error not yet delivered
   exit |-> None,          \* the code passed to 'close' (None: null)
   out |-> <<>>,           \* let out = ""
   err |-> <<>>,           \* let err = ""
   result |-> None,        \* the Invocation Result runSessh resolved with
   outcome |-> "pending",  \* the facade method's promise
   value |-> JNull,        \*   the value it resolved with
   message |-> <<>>,       \*   the message of the error it rejected with
   prev |-> None]          \* what the caller remembers of its previous call

Init ==
  /\ processEnv \in SomeEnvs
  /\ constructed = FALSE
  /\ options = NoOptions
  /\ optionsPassed = NoOptions
  /\ calls = [c \in Slots |-> IdleCall]
  /\ nCalls = 0

\* variant for C13: a constructor that validates the port and raises on 0
ConstructValidatesPort(o) ==
  /\ ~constructed
  /\ o.port # Some(0)
  /\ constructed' = TRUE
  /\ options' = o
  /\ optionsPassed' = o
  /\ UNCHANGED <<processEnv, calls, nCalls>>

\* constructor(options) { this.options = options }
Construct(o) ==
  /\ ~constructed
  /\ constructed' = TRUE
  /\ options' = o
  /\ optionsPassed' = o
  /\ UNCHANGED <<processEnv, calls, nCalls>>

\* runSessh(args, options) up to the return of the promise executor: the
\* request is built, spawn() is invoked, the three listeners are registered
runSessh(op, args, opts, penv, b) ==
  LET req == [IdleCall EXCEPT !.op = op, !.spawned = 1,
                !.bin = sesshBin(opts), !.args = args,
                !.env = childEnv(opts, penv)]
  IN CASE b.spawn = "started" ->
            [req EXCEPT !.phase = "running", !.alive = TRUE, !.children = 1,
                        !.wroteOut = b.out, !.wroteErr = b.err,
                        !.pipeOut = b.out, !.pipeErr = b.err]
       [] b.spawn = "error" -> [req EXCEPT !.phase = "spawnFailed"]
       [] b.spawn = "throws" ->
            [req EXCEPT !.phase = "threw", !.message = SpawnThrowMessage]

\* variant for C14: a method that normalises the stored port to the default
\* ssh port before spawning
InvokeNormalisesPort(c, callState) ==
  /\ constructed
  /\ calls[c].phase = "idle"
  /\ nCalls < MaxCalls
  /\ calls' = [calls EXCEPT ![c] = [callState EXCEPT !.prev = calls[c].prev]]
  /\ nCalls' = nCalls + 1
  /\ options' = [options EXCEPT !.port = Some(22)]
  /\ UNCHANGED <<processEnv, constructed, optionsPassed>>

\* variant for C25: a facade that remembers whether a session was opened and
\* refuses, without spawning, any other operation called first
InvokeRequiresOpenFirst(c, callState) ==
  /\ constructed
  /\ calls[c].phase = "idle"
  /\ nCalls < MaxCalls
  /\ calls' = [calls EXCEPT ![c] =
       IF nCalls = 0 /\ callState.op \notin {"open", "attach"}
       THEN [IdleCall EXCEPT !.op = callState.op, !.input = callState.input,
               !.phase = "settled", !.outcome = "rejected",
               !.message = <<"session not open">>, !.prev = calls[c].prev]
       ELSE [callState EXCEPT !.prev = calls[c].prev]]
  /\ nCalls' = nCalls + 1
  /\ UNCHANGED <<processEnv, constructed, options, optionsPassed>>

\* a facade method is called on slot c and runs up to its await
Invoke(c, callState) ==
  /\ constructed
  /\ calls[c].phase = "idle"
  /\ nCalls < MaxCalls
  /\ calls' = [calls EXCEPT ![c] = [callState EXCEPT !.prev = calls[c].prev]]
  /\ nCalls' = nCalls + 1
  /\ UNCHANGED <<processEnv, constructed, options, optionsPassed>>

open(c, b) ==
  Invoke(c, runSessh("open", portArgs("open", options), options, processEnv, b))

run(c, command, b) ==
  Invoke(c, [runSessh("run", textArgs("run", options, command), options,
                      processEnv, b) EXCEPT !.input = Some(command)])

logs(c, lines, b) ==
  Invoke(c, [runSessh("logs", linesArgs("logs", options, lines), options,
                      processEnv, b) EXCEPT !.input = lines])

status(c, b) ==
  Invoke(c, runSessh("status", portArgs("status", options), options,
                     processEnv, b))

close(c, b) ==
  Invoke(c, runSessh("close", portArgs("close", options), options,
                     processEnv, b))

\* variant for C9: attach() implemented like the other operations
attachViaSpawn(c) ==
  Invoke(c, runSessh("attach", <<"attach", options.alias, options.host>>,
                     options, processEnv,
                     Behaviour("started", << OkOpen >>, <<>>)))

\* attach() throws at once: the promise of the async method is rejected
attach(c) ==
  Invoke(c, [IdleCall EXCEPT !.op = "attach", !.phase = "settled",
               !.outcome = "rejected", !.message = AttachMessage])

keys(c, keySequence, b) ==
  Invoke(c, [runSessh("keys", textArgs("keys", options, keySequence), options,
                      processEnv, b) EXCEPT !.input = Some(keySequence)])

pane(c, lines, b) ==
  Invoke(c, [runSessh("pane", linesArgs("pane", options, lines), options,
                      processEnv, b) EXCEPT !.input = lines])

\* variant for C22: "out" declared once for the module instead of once per
\* runSessh call, so every call in flight accumulates every child's output
OnStdoutDataSharedBuffer(c) ==
  /\ calls[c].phase \in {"running", "exited"}
  /\ calls[c].pipeOut # <<>>
  /\ calls' = [d \in Slots |->
       IF d = c
       THEN [calls[d] EXCEPT !.out = @ \o toString(Head(calls[c].pipeOut)),
                             !.pipeOut = Tail(@)]
       ELSE IF calls[d].phase \in {"running", "exited"}
       THEN [calls[d] EXCEPT !.out = @ \o toString(Head(calls[c].pipeOut))]
       ELSE calls[d]]
  /\ UNCHANGED <<processEnv, constructed, options, optionsPassed, nCalls>>

\* proc.stdout.on("data", (d) => (out += d.toString()))
OnStdoutData(c) ==
  /\ calls[c].phase \in {"running", "exited"}
  /\ calls[c].pipeOut # <<>>
  /\ calls' = [calls EXCEPT
       ![c].out = @ \o toString(Head(calls[c].pipeOut)),
       ![c].pipeOut = Tail(@)]
  /\ UNCHANGED <<processEnv, constructed, options, optionsPassed, nCalls>>

\* proc.stderr.on("data", (d) => (err += d.toString()))
OnStderrData(c) ==
  /\ calls[c].phase \in {"running", "exited"}
  /\ calls[c].pipeErr # <<>>
  /\ calls' = [calls EXCEPT
       ![c].err = @ \o toString(Head(calls[c].pipeErr)),
       ![c].pipeErr = Tail(@)]
  /\ UNCHANGED <<processEnv, constructed, options, optionsPassed, nCalls>>

\* the child process ends, with an exit status or by a signal (code null)
ChildExit(c, code) ==
  /\ calls[c].phase = "running"
  /\ calls' = [calls EXCEPT ![c].phase = "exited", ![c].alive = FALSE,
                            ![c].exit = code]
  /\ UNCHANGED <<processEnv, constructed, options, optionsPassed, nCalls>>

\* variant for C19: the absence of an exit code counts as exit code 1
InvocationResultNoCodeIsOne(code, out, err) ==
  [code |-> IF code = None THEN 1 ELSE code[1],
   stdout |-> Trim(out), stderr |-> Trim(err)]

\* the Invocation Result the close handler resolves with
InvocationResult(code, out, err) ==
  [code |-> IF code = None THEN 0 ELSE code[1],
   stdout |-> Trim(out), stderr |-> Trim(err)]

\* variant for C23: the result is resolved once the output read so far is
\* consumed, without waiting for the child to end
OnCloseBeforeExit(c) ==
  /\ calls[c].phase \in {"running", "exited"}
  /\ calls[c].pipeOut = <<>>
  /\ calls[c].pipeErr = <<>>
  /\ calls' = [calls EXCEPT
       ![c].phase = "closed",
       ![c].result =
         Some(InvocationResult(calls[c].exit, calls[c].out, calls[c].err))]
  /\ UNCHANGED <<processEnv, constructed, options, optionsPassed, nCalls>>

\* proc.on("close", (code) => resolve({ code: code ?? 0, ... })): emitted
\* once the child has ended and both streams have been read to their end
OnClose(c) ==
  /\ calls[c].phase = "exited"
  /\ calls[c].pipeOut = <<>>
  /\ calls[c].pipeErr = <<>>
  /\ calls' = [calls EXCEPT
       ![c].phase = "closed",
       ![c].result =
         Some(InvocationResult(calls[c].exit, calls[c].out, calls[c].err))]
  /\ UNCHANGED <<processEnv, constructed, options, optionsPassed, nCalls>>

\* the runtime emits 'error' on a ChildProcess that could not be started.
\* runSessh registers no 'error' listener, so the emit throws the error as an
\* uncaught exception, and the 'close' event is never emitted: nothing
\* resolves or rejects runSessh's promise.
UnhandledError(c) ==
  /\ calls[c].phase = "spawnFailed"
  /\ calls' = [calls EXCEPT ![c].phase = "uncaught"]
  /\ UNCHANGED <<processEnv, constructed, options, optionsPassed, nCalls>>

\* variant for C21: one retry with a second child when the mapper raises
SettleRetriesOnce(call) ==
  IF call.phase = "threw"
  THEN [call EXCEPT !.phase = "settled", !.outcome = "rejected"]
  ELSE LET r == parseResponse(call.result[1]) IN
       IF r.threw /\ call.spawned < 2
       THEN [call EXCEPT !.phase = "running", !.alive = TRUE,
               !.spawned = 2, !.children = 2, !.result = None,
               !.exit = None, !.out = <<>>, !.err = <<>>]
       ELSE [call EXCEPT !.phase = "settled",
               !.outcome = IF r.threw THEN "rejected" ELSE "resolved",
               !.value = r.value, !.message = r.message]

\* how the facade method ends once runSessh's promise is settled:
\* return parseResponse(result), or the exception thrown inside the promise
\* executor propagates through the await
Settle(call) ==
  IF call.phase = "threw"
  THEN [call EXCEPT !.phase = "settled", !.outcome = "rejected"]
  ELSE LET r == parseResponse(call.result[1]) IN
       [call EXCEPT !.phase = "settled",
          !.outcome = IF r.threw THEN "rejected" ELSE "resolved",
          !.value = r.value, !.message = r.message]

\* the continuation of the facade method after "await runSessh(...)"
Resume(c) ==
  /\ calls[c].phase \in {"closed", "threw"}
  /\ calls' = [calls EXCEPT ![c] = Settle(calls[c])]
  /\ UNCHANGED <<processEnv, constructed, options, optionsPassed, nCalls>>

\* as Return, with the caller keeping a note of the call that just ended
\* (its operation and how it ended); the facade holds nothing of it
ReturnRemembering(c) ==
  /\ calls[c].phase = "settled"
  /\ calls' = [calls EXCEPT ![c] =
       [IdleCall EXCEPT !.prev = Some([op |-> calls[c].op,
                                       outcome |-> calls[c].outcome,
                                       children |-> calls[c].children])]]
  /\ UNCHANGED <<processEnv, constructed, options, optionsPassed, nCalls>>

\* what the caller may assign to a field of the options object it passed,
\* after the facade was constructed
CallerHosts == {"user@host", "other@host"}
CallerPorts == {None, Some(2222)}

\* the caller assigns a field of the object it passed to the constructor;
\* this.options is a reference to that object, not a copy
CallerChangesOptions(host, port) ==
  /\ constructed
  /\ options' = [options EXCEPT !.host = host, !.port = port]
  /\ options' # options
  /\ UNCHANGED <<processEnv, constructed, optionsPassed, calls, nCalls>>

\* the caller's await returns (or throws) and the caller goes on
Return(c) ==
  /\ calls[c].phase = "settled"
  /\ calls' = [calls EXCEPT ![c] = IdleCall]
  /\ UNCHANGED <<processEnv, constructed, options, optionsPassed, nCalls>>

\* the caller awaits each call before it issues the next: one slot
Next ==
  \/ \E o \in SomeOptions : Construct(o)
  \/ \E b \in Behaviours : open(1, b)
  \/ \E t \in SomeTexts, b \in Behaviours : run(1, t, b)
  \/ \E n \in SomeLinesValues, b \in Behaviours : logs(1, n, b)
  \/ \E b \in Behaviours : status(1, b)
  \/ \E b \in Behaviours : close(1, b)
  \/ attach(1)
  \/ \E t \in SomeTexts, b \in Behaviours : keys(1, t, b)
  \/ \E n \in SomeLinesValues, b \in Behaviours : pane(1, n, b)
  \/ OnStdoutData(1)
  \/ OnStderrData(1)
  \/ \E code \in ExitCodes : ChildExit(1, code)
  \/ OnClose(1)
  \/ UnhandledError(1)
  \/ Resume(1)
  \/ Return(1)

Spec == Init /\ [][Next]_vars

----------------------------------------------------------------------------
(* The request alone: every combination of the optional settings and of the
   caller's environment, each operation taken up to the return of spawn() *)

InitRequest ==
  /\ processEnv \in AllEnvs
  /\ constructed = FALSE
  /\ options = NoOptions
  /\ optionsPassed = NoOptions
  /\ calls = [c \in Slots |-> IdleCall]
  /\ nCalls = 0

NextRequest ==
  \/ \E o \in AllOptions : Construct(o)
  \/ \E b \in SpawnBehaviours : open(1, b)
  \/ \E t \in Texts, b \in SpawnBehaviours : run(1, t, b)
  \/ \E n \in LinesValues, b \in SpawnBehaviours : logs(1, n, b)
  \/ \E b \in SpawnBehaviours : status(1, b)
  \/ \E b \in SpawnBehaviours : close(1, b)
  \/ attach(1)
  \/ \E t \in Texts, b \in SpawnBehaviours : keys(1, t, b)
  \/ \E n \in LinesValues, b \in SpawnBehaviours : pane(1, n, b)
  \/ Return(1)

SpecRequest == InitRequest /\ [][NextRequest]_vars

----------------------------------------------------------------------------
(* Two calls in flight on one facade: the methods are async and share nothing
   but this.options, so the events of two children interleave freely *)

ConcOptions ==
  {Options("agent", "user@host", Some(2222), Some("/opt/sessh"),
           Some("~/.ssh/id_ed25519"), Some("bastion"))}

ConcBehaviours ==
  {Behaviour("started", << OkOpen \o <<"\n">> >>, <<>>),
   Behaviour("started", <<>>, << <<"connection", " ", "refused", "\n">> >>),
   Behaviour("error", <<>>, <<>>), Behaviour("throws", <<>>, <<>>)}

ConcExitCodes == {Some(0), Some(1)}

InitConc ==
  /\ processEnv = EnvWith({})
  /\ constructed = FALSE
  /\ options = NoOptions
  /\ optionsPassed = NoOptions
  /\ calls = [c \in Slots |-> IdleCall]
  /\ nCalls = 0

NextConc ==
  \/ \E o \in ConcOptions : Construct(o)
  \/ \E c \in Slots, b \in ConcBehaviours : open(c, b)
  \/ \E c \in Slots, t \in SomeTexts, b \in ConcBehaviours : run(c, t, b)
  \/ \E c \in Slots, b \in ConcBehaviours : logs(c, Some(50), b)
  \/ \E c \in Slots, b \in ConcBehaviours : status(c, b)
  \/ \E c \in Slots, b \in ConcBehaviours : close(c, b)
  \/ \E c \in Slots : attach(c)
  \/ \E c \in Slots, t \in SomeTexts, b \in ConcBehaviours : keys(c, t, b)
  \/ \E c \in Slots, b \in ConcBehaviours : pane(c, None, b)
  \/ \E c \in Slots : OnStdoutData(c)
  \/ \E c \in Slots : OnStderrData(c)
  \/ \E c \in Slots, code \in ConcExitCodes : ChildExit(c, code)
  \/ \E c \in Slots : OnClose(c)
  \/ \E c \in Slots : UnhandledError(c)
  \/ \E c \in Slots : Resume(c)
  \/ \E c \in Slots : Return(c)

SpecConc == InitConc /\ [][NextConc]_vars

----------------------------------------------------------------------------
(* Calls in any order: one caller that awaits each call and remembers the
   call it made before, so that what a call issues can be set against what
   preceded it *)

NextOrder ==
  \/ \E o \in ConcOptions : Construct(o)
  \/ \E b \in ConcBehaviours : open(1, b)
  \/ \E t \in SomeTexts, b \in ConcBehaviours : run(1, t, b)
  \/ \E n \in SomeLinesValues, b \in ConcBehaviours : logs(1, n, b)
  \/ \E b \in ConcBehaviours : status(1, b)
  \/ \E b \in ConcBehaviours : close(1, b)
  \/ attach(1)
  \/ \E t \in SomeTexts, b \in ConcBehaviours : keys(1, t, b)
  \/ \E n \in SomeLinesValues, b \in ConcBehaviours : pane(1, n, b)
  \/ OnStdoutData(1)
  \/ OnStderrData(1)
  \/ \E code \in ConcExitCodes : ChildExit(1, code)
  \/ OnClose(1)
  \/ UnhandledError(1)
  \/ Resume(1)
  \/ ReturnRemembering(1)

SpecOrder == InitConc /\ [][NextOrder]_vars

----------------------------------------------------------------------------
(* A caller that keeps the options object and assigns to its fields between
   the calls it awaits *)

NextCaller ==
  \/ \E o \in ConcOptions : Construct(o)
  \/ \E h \in CallerHosts, p \in CallerPorts : CallerChangesOptions(h, p)
  \/ \E b \in ConcBehaviours : open(1, b)
  \/ \E t \in SomeTexts, b \in ConcBehaviours : run(1, t, b)
  \/ \E n \in SomeLinesValues, b \in ConcBehaviours : logs(1, n, b)
  \/ \E b \in ConcBehaviours : status(1, b)
  \/ \E b \in ConcBehaviours : close(1, b)
  \/ attach(1)
  \/ \E t \in SomeTexts, b \in ConcBehaviours : keys(1, t, b)
  \/ \E n \in SomeLinesValues, b \in ConcBehaviours : pane(1, n, b)
  \/ OnStdoutData(1)
  \/ OnStderrData(1)
  \/ \E code \in ConcExitCodes : ChildExit(1, code)
  \/ OnClose(1)
  \/ UnhandledError(1)
  \/ Resume(1)
  \/ Return(1)

SpecCaller == InitConc /\ [][NextCaller]_vars

----------------------------------------------------------------------------
(* Claims *)

\* the call in slot c has handed a request to spawn()
Issued(c) == calls[c].spawned > 0

\* the call in slot c has settled after its child's 'close' event
Mapped(c) == calls[c].phase = "settled" /\ calls[c].result # None

\* C1: in every operation that spawns the external binary, whatever the
\* Session Configuration and the caller's environment (also one that defines
\* SESSH_JSON itself), the environment handed to the child holds SESSH_JSON
\* with the value "1".
C1_JsonFlagForced ==
  \A c \in Slots :
    Issued(c) =>
      /\ "SESSH_JSON" \in DOMAIN calls[c].env
      /\ calls[c].env["SESSH_JSON"] = "1"

\* C1 witness: a status call issued by a caller whose own environment sets
\* SESSH_JSON to "0", with identity and proxyjump configured
C1_Witness ==
  /\ calls[1].op = "status"
  /\ Issued(1)
  /\ "SESSH_JSON" \in DOMAIN processEnv
  /\ processEnv["SESSH_JSON"] = "0"
  /\ options.identity # None
  /\ options.proxyjump # None
  /\ calls[1].env["SESSH_JSON"] = "1"

\* C2 as claimed: whenever the external process exits with code 0, the facade
\* method resolves.
C2_ExitZeroResolves ==
  \A c \in Slots :
    (Mapped(c) /\ calls[c].exit = Some(0)) => calls[c].outcome = "resolved"

\* C2 amended: when the external process exits with code 0 and the captured
\* standard output decodes as JSON, the facade method resolves with the
\* decoded value; for the output {"ok":true,"op":"open"} that value is the
\* mapping ok -> true, op -> "open".
C2_ExitZeroDecodableResolves ==
  \A c \in Slots :
    (Mapped(c) /\ calls[c].exit = Some(0)
       /\ JSONparse(calls[c].result[1].stdout).ok) =>
      /\ calls[c].outcome = "resolved"
      /\ calls[c].value = JSONparse(calls[c].result[1].stdout).value
      /\ calls[c].result[1].stdout = OkOpen =>
           calls[c].value =
             JObj(("ok" :> JBool(TRUE)) @@ ("op" :> JStr("open")))

\* C2 witness: open() whose child exits 0 after writing {"ok":true,"op":"open"}
\* and a newline has resolved with that mapping
C2_Witness ==
  /\ calls[1].op = "open"
  /\ Mapped(1)
  /\ calls[1].exit = Some(0)
  /\ calls[1].result[1].stdout = OkOpen
  /\ calls[1].outcome = "resolved"
  /\ calls[1].value.kind = "object"
  /\ calls[1].value.v["op"] = JStr("open")

\* C3: for an Invocation Result with a non-zero exit code and empty standard
\* output the facade method raises; the message is the captured standard
\* error exactly when that text is non-empty, and otherwise it is a generic
\* message that names the exit code.
C3_InvocationFailure ==
  \A c \in Slots :
    (Mapped(c) /\ calls[c].result[1].code # 0
       /\ calls[c].result[1].stdout = <<>>) =>
      /\ calls[c].outcome = "rejected"
      /\ (calls[c].message = calls[c].result[1].stderr)
           <=> (calls[c].result[1].stderr # <<>>)
      /\ calls[c].result[1].stderr = <<>> =>
           Contains(calls[c].message, <<ToString(calls[c].result[1].code)>>)

\* C3 witness: exit 1, nothing on standard output, "connection refused" and a
\* newline on standard error: raised with the message "connection refused"
C3_Witness ==
  /\ Mapped(1)
  /\ calls[1].exit = Some(1)
  /\ calls[1].result[1].stdout = <<>>
  /\ calls[1].outcome = "rejected"
  /\ calls[1].message = <<"connection", " ", "refused">>

\* C4: for every exit code, when the captured standard output cannot be
\* decoded the facade method raises an error whose message contains the
\* captured standard-output text, and no value is returned.
C4_DecodeFailure ==
  \A c \in Slots :
    (Mapped(c) /\ ~JSONparse(calls[c].result[1].stdout).ok) =>
      /\ calls[c].outcome = "rejected"
      /\ Contains(calls[c].message, calls[c].result[1].stdout)
      /\ calls[c].value = JNull

\* C4 witness: exit 0 with standard output "not json": raised, and the
\* message holds the text after the fixed prefix
C4_Witness ==
  /\ Mapped(1)
  /\ calls[1].exit = Some(0)
  /\ calls[1].result[1].stdout = <<"not", " ", "json">>
  /\ calls[1].outcome = "rejected"
  /\ calls[1].message = <<"Invalid JSON from sessh: ", "not", " ", "json">>

\* a Structured Response: a mapping with a boolean ok and a string op
IsStructuredResponse(val) ==
  /\ val.kind = "object"
  /\ {"ok", "op"} \subseteq DOMAIN val.v
  /\ val.v["ok"].kind = "boolean"
  /\ val.v["op"].kind = "string"

\* C5: every value a facade method resolves with is a mapping that holds a
\* boolean ok and a string op.
C5_ResolvedIsStructured ==
  \A c \in Slots :
    calls[c].outcome = "resolved" => IsStructuredResponse(calls[c].value)

\* C6: whenever the external process exits with a non-zero code, the facade
\* method that invoked it raises.
C6_NonZeroExitRaises ==
  \A c \in Slots :
    (Mapped(c) /\ calls[c].exit # None /\ calls[c].exit[1] # 0) =>
      calls[c].outcome = "rejected"

\* one setting of C7: the configured value v and the variable name
C7_AsClaimed(c, v, name) ==
  IF v # None
  THEN name \in DOMAIN calls[c].env /\ calls[c].env[name] = v[1]
  ELSE name \notin DOMAIN calls[c].env

\* C7 as claimed: a configured identity (proxyjump) is in the child's
\* environment as SESSH_IDENTITY (SESSH_PROXYJUMP) with exactly the configured
\* value, and when the setting is not configured the variable is absent from
\* the child's environment.
C7_OptionalVariables ==
  \A c \in Slots :
    Issued(c) =>
      /\ C7_AsClaimed(c, options.identity, "SESSH_IDENTITY")
      /\ C7_AsClaimed(c, options.proxyjump, "SESSH_PROXYJUMP")

C7_AsAmended(c, v, name) ==
  IF v # None /\ v[1] # ""
  THEN name \in DOMAIN calls[c].env /\ calls[c].env[name] = v[1]
  ELSE /\ (name \in DOMAIN calls[c].env) <=> (name \in DOMAIN processEnv)
       /\ name \in DOMAIN calls[c].env =>
            calls[c].env[name] = processEnv[name]

\* C7 amended: a setting configured with a non-empty value is in the child's
\* environment with exactly that value; a setting that is not configured, or
\* is the empty string, is not set by the wrapper: the child's environment
\* holds the variable exactly when the caller's environment does, with the
\* caller's value.
C7_OptionalVariablesInherited ==
  \A c \in Slots :
    Issued(c) =>
      /\ C7_AsAmended(c, options.identity, "SESSH_IDENTITY")
      /\ C7_AsAmended(c, options.proxyjump, "SESSH_PROXYJUMP")

\* C7 witness: identity configured and proxyjump not, under a caller
\* environment that defines both variables
C7_Witness ==
  /\ Issued(1)
  /\ options.identity = Some("~/.ssh/id_ed25519")
  /\ options.proxyjump = None
  /\ {"SESSH_IDENTITY", "SESSH_PROXYJUMP"} \subseteq DOMAIN processEnv
  /\ calls[1].env["SESSH_IDENTITY"] = "~/.ssh/id_ed25519"
  /\ calls[1].env["SESSH_PROXYJUMP"] = "callerhop"

\* C8: a call whose child is not running, with no output left to deliver and
\* no callback or continuation left to run, has settled: resolved or rejected.
C8_QuiescentCallSettled ==
  \A c \in Slots :
    (calls[c].phase \notin
       {"idle", "running", "exited", "closed", "threw", "spawnFailed"}) =>
      calls[c].outcome \in {"resolved", "rejected"}

\* C9: attach() raises, and spawns no child process, for every Session
\* Configuration and after any earlier operation.
C9_AttachRaises ==
  \A c \in Slots :
    calls[c].op = "attach" =>
      /\ calls[c].outcome = "rejected"
      /\ calls[c].message # <<>>
      /\ calls[c].spawned = 0
      /\ ~calls[c].alive

\* C9 witness: attach() issued as the second call of the run has raised
C9_Witness ==
  /\ calls[1].op = "attach"
  /\ nCalls = 2
  /\ calls[1].outcome = "rejected"
  /\ options.port # None

\* C10: open, status and close issue [keyword, alias, host] when no port is
\* configured and [keyword, alias, host, decimal numeral of the port] when a
\* port is configured, for every configured integer port.
C10_PortArguments ==
  \A c \in Slots :
    (Issued(c) /\ calls[c].op \in {"open", "status", "close"}) =>
      calls[c].args =
        IF options.port = None
        THEN <<calls[c].op, options.alias, options.host>>
        ELSE <<calls[c].op, options.alias, options.host,
               ToString(options.port[1])>>

\* C11: run(command) and keys(keySequence) issue exactly
\* [keyword, alias, host, "--", text] for every text (empty, starting with
\* '-', holding spaces) and every Session Configuration: the caller's string
\* unchanged, as the single last argument right after "--", with nothing
\* appended.
C11_TextArguments ==
  \A c \in Slots :
    (Issued(c) /\ calls[c].op \in {"run", "keys"}) =>
      /\ calls[c].input \in {Some(t) : t \in Texts}
      /\ calls[c].args =
           <<calls[c].op, options.alias, options.host, "--", calls[c].input[1]>>
      /\ Len(calls[c].args) = 5
      /\ calls[c].args[4] = "--"
      /\ calls[c].args[5] = calls[c].input[1]

\* C11 witness: run("-rf") on a facade with a port configured
C11_Witness ==
  /\ Issued(1)
  /\ calls[1].op = "run"
  /\ calls[1].input = Some("-rf")
  /\ options.port = Some(2222)
  /\ calls[1].args = <<"run", "agent", "user@host", "--", "-rf">>

\* C12: logs(lines) and pane(lines) issue exactly
\* [keyword, alias, host, decimal numeral of lines] for every Session
\* Configuration; an omitted lines gives "300", and any number passed,
\* 0 included, is used instead of the default.
C12_LinesArguments ==
  \A c \in Slots :
    (Issued(c) /\ calls[c].op \in {"logs", "pane"}) =>
      calls[c].args =
        <<calls[c].op, options.alias, options.host,
          IF calls[c].input = None THEN "300"
          ELSE ToString(calls[c].input[1])>>

\* C12 witness: logs(0) on a facade with a port configured issues "0"
C12_Witness ==
  /\ Issued(1)
  /\ calls[1].op = "logs"
  /\ calls[1].input = Some(0)
  /\ options.port = Some(2222)
  /\ calls[1].args = <<"logs", "agent", "user@host", "0">>

\* C13: constructing a facade never raises and spawns no child process:
\* before construction the constructor accepts every Session Configuration
\* (any combination of the optional port, binary path, identity and
\* proxyjump), and right after it, before any operation, the facade holds the
\* configuration given and no call has spawned anything.
C13_ConstructionIsAssignment ==
  /\ ~constructed => \A o \in AllOptions : ENABLED Construct(o)
  /\ constructed => options \in AllOptions
  /\ (constructed /\ nCalls = 0) =>
       \A c \in Slots : calls[c] = IdleCall /\ calls[c].spawned = 0

\* C13 witness: a facade constructed with a falsy port and empty optional
\* strings, before any operation
C13_Witness ==
  /\ constructed
  /\ nCalls = 0
  /\ options.port = Some(0)
  /\ options.sesshBin = Some("")
  /\ options.identity = Some("")
  /\ options.proxyjump = Some("")
  /\ \A c \in Slots : calls[c].spawned = 0

\* C14: no facade operation changes the Session Configuration: once the
\* facade is constructed, every step (a call of open, run, logs, status,
\* close, keys, pane or attach, an event of a child, the settling of a call,
\* with one or two calls in flight) leaves every field of options as it was.
C14_ConfigurationUnchanged ==
  [][constructed => options' = options]_vars

\* C14 witness: two calls were in flight together on the configured facade;
\* one resolved and the other was rejected
C14_Witness ==
  /\ constructed
  /\ options \in ConcOptions
  /\ nCalls = 2
  /\ calls[1].phase = "settled" /\ calls[1].outcome = "resolved"
  /\ calls[2].phase = "settled" /\ calls[2].outcome = "rejected"
  /\ calls[1].op = "open" /\ calls[2].op = "run"

RECURSIVE ConcatChunks(_)
ConcatChunks(chunks) ==
  IF chunks = <<>> THEN <<>> ELSE Head(chunks) \o ConcatChunks(Tail(chunks))

\* C18: for every interleaving of the data events and the close event of one
\* child, the Invocation Result is produced only at the close event, once
\* every chunk has been delivered, and its stdout (resp. stderr) is the text
\* of the concatenation, in arrival order, of every chunk the child wrote to
\* standard output (resp. standard error), trimmed.
C18_CapturedIsWhatChildWrote ==
  \A c \in Slots :
    /\ calls[c].result # None =>
         /\ calls[c].phase \in {"closed", "settled"}
         /\ calls[c].pipeOut = <<>> /\ calls[c].pipeErr = <<>>
         /\ calls[c].result[1].stdout =
              Trim(toString(ConcatChunks(calls[c].wroteOut)))
         /\ calls[c].result[1].stderr =
              Trim(toString(ConcatChunks(calls[c].wroteErr)))
    /\ calls[c].phase = "closed" => calls[c].result # None

\* C19: when the runtime reports no exit code for the ended child, the
\* Invocation Result's exit code is 0 and the call is classified as an
\* exit-0 call is: never as an invocation failure (the message is never the
\* standard-error text nor the exit-code message), decoding standard output
\* alone decides whether the call resolves, and with what.
C19_NoExitCodeIsZero ==
  \A c \in Slots :
    (Mapped(c) /\ calls[c].exit = None) =>
      LET result == calls[c].result[1]
          parsed == JSONparse(result.stdout)
      IN /\ result.code = 0
         /\ (calls[c].outcome = "resolved") <=> parsed.ok
         /\ parsed.ok => calls[c].value = parsed.value
         /\ ~parsed.ok =>
              /\ calls[c].outcome = "rejected"
              /\ calls[c].message =
                   <<"Invalid JSON from sessh: ">> \o result.stdout

\* C19 witness: the child is ended by a signal having written nothing to
\* standard output and "connection refused" to standard error: a decode
\* failure, not an invocation failure
C19_Witness ==
  /\ Mapped(1)
  /\ calls[1].exit = None
  /\ calls[1].result[1] =
       [code |-> 0, stdout |-> <<>>, stderr |-> <<"connection", " ", "refused">>]
  /\ calls[1].outcome = "rejected"
  /\ calls[1].message = <<"Invalid JSON from sessh: ">>

\* C20: the Process Invoker never signals failure itself: for every argument
\* list, Session Configuration and child outcome it neither throws nor
\* rejects its promise, so every error a facade method raises from a spawning
\* operation comes from the Response Mapper applied to an Invocation Result.
C20_InvokerNeverFails ==
  \A c \in Slots :
    Issued(c) =>
      /\ calls[c].phase # "threw"
      /\ calls[c].outcome = "rejected" =>
           /\ calls[c].result # None
           /\ parseResponse(calls[c].result[1]).threw
           /\ calls[c].message = parseResponse(calls[c].result[1]).message

\* the operations that go through runSessh
SpawningOps == {"open", "run", "logs", "status", "close", "keys", "pane"}

\* C21 as stated: every call of open, run, logs, status, close, keys or pane
\* has spawned exactly one child process, however it ends.
C21_ExactlyOneChild ==
  \A c \in Slots :
    calls[c].op \in SpawningOps => calls[c].children = 1

\* C21 as amended: every call of a spawning operation invokes spawn() exactly
\* once and never again (no retry, no fallback); that invocation starts at
\* most one child, and exactly one whenever the call reaches the Response
\* Mapper (success, invocation failure or decode failure) or has a child
\* running; when spawn() throws or the binary cannot be started the call has
\* no child at all.
C21_OneSpawnAtMostOneChild ==
  \A c \in Slots :
    calls[c].op \in SpawningOps =>
      /\ calls[c].spawned = 1
      /\ calls[c].children \in {0, 1}
      /\ (Mapped(c) \/ calls[c].phase \in {"running", "exited", "closed"})
           => calls[c].children = 1
      /\ calls[c].phase \in {"spawnFailed", "uncaught", "threw"}
           => calls[c].children = 0
      /\ (calls[c].phase = "settled" /\ calls[c].result = None)
           => calls[c].children = 0

\* C21 witness: a call that ended in a decode failure after its one child
C21_Witness ==
  /\ Mapped(1)
  /\ calls[1].op \in SpawningOps
  /\ calls[1].outcome = "rejected"
  /\ ~JSONparse(calls[1].result[1].stdout).ok
  /\ calls[1].result[1].stdout # <<>>
  /\ calls[1].spawned = 1
  /\ calls[1].children = 1

\* the text the data handlers accumulate from a sequence of chunks
RECURSIVE DecodeChunks(_)
DecodeChunks(chunks) ==
  IF chunks = <<>> THEN <<>>
  ELSE toString(Head(chunks)) \o DecodeChunks(Tail(chunks))

\* C22: with two calls in flight on one facade and every interleaving of
\* their children's data, exit and close events, each call's Invocation
\* Result and outcome are computed from its own child alone (its exit code
\* and the chunks it wrote to standard output and to standard error), and
\* no step of a call waits for the other call: each event of a call is
\* enabled whatever the other call's position.
C22_CallsAreIndependent ==
  \A c \in Slots :
    /\ Mapped(c) =>
         LET own == InvocationResult(calls[c].exit,
                                     DecodeChunks(calls[c].wroteOut),
                                     DecodeChunks(calls[c].wroteErr))
         IN /\ calls[c].result[1] = own
            /\ (calls[c].outcome = "rejected") <=> parseResponse(own).threw
            /\ calls[c].value = parseResponse(own).value
            /\ calls[c].message = parseResponse(own).message
    /\ calls[c].phase = "running" => ENABLED ChildExit(c, Some(0))
    /\ (calls[c].phase \in {"running", "exited"} /\ calls[c].pipeOut # <<>>)
         => ENABLED OnStdoutData(c)
    /\ (calls[c].phase \in {"running", "exited"} /\ calls[c].pipeErr # <<>>)
         => ENABLED OnStderrData(c)
    /\ (calls[c].phase = "exited" /\ calls[c].pipeOut = <<>>
          /\ calls[c].pipeErr = <<>>) => ENABLED OnClose(c)
    /\ calls[c].phase \in {"closed", "threw"} => ENABLED Resume(c)

\* C22 witness: the second call has settled, rejected with its own child's
\* standard-error text, while the first call's child, which writes a
\* response to standard output, is still running with output undelivered
C22_Witness ==
  /\ calls[1].phase = "running"
  /\ calls[1].pipeOut # <<>>
  /\ Mapped(2)
  /\ calls[2].outcome = "rejected"
  /\ calls[2].message = <<"connection", " ", "refused">>
  /\ calls[2].wroteOut = <<>>

\* the calls whose child process runs
LiveChildren == {c \in Slots : calls[c].alive}

\* C23: a facade method's promise settles only after its child has ended and
\* its output streams were read to their end: a settled call has no live
\* child and no undelivered output.  So when the caller awaits each call
\* before the next, at most one child is alive at any time, and a child is
\* spawned only when no child of an earlier call is alive (children are
\* spawned in the order of the calls).
C23_SettledHasNoLiveChild ==
  /\ [](\A c \in Slots :
          /\ calls[c].phase = "settled" =>
               /\ ~calls[c].alive
               /\ calls[c].pipeOut = <<>> /\ calls[c].pipeErr = <<>>
          /\ calls[c].result # None => ~calls[c].alive
          /\ Cardinality(LiveChildren) <= 1)
  /\ [][\A c \in Slots :
          calls'[c].spawned > calls[c].spawned => LiveChildren = {}]_vars

\* C23 witness: the second of two awaited calls has settled after its child
\* ran and ended
C23_Witness ==
  /\ nCalls = 2
  /\ Mapped(1)
  /\ calls[1].children = 1
  /\ calls[1].exit # None
  /\ ~calls[1].alive
  /\ LiveChildren = {}

\* the variables the wrapper sets for a configuration
WrapperSets(opts) ==
  {"SESSH_JSON"}
  \cup (IF opts.identity # None /\ opts.identity[1] # ""
        THEN {"SESSH_IDENTITY"} ELSE {})
  \cup (IF opts.proxyjump # None /\ opts.proxyjump[1] # ""
        THEN {"SESSH_PROXYJUMP"} ELSE {})

\* C24: the child's environment holds every variable of the caller's
\* environment with the same value, except SESSH_JSON, SESSH_IDENTITY and
\* SESSH_PROXYJUMP when the wrapper sets them, and holds nothing else; and no
\* step changes the caller's own process environment.
C24_EnvironmentInherited ==
  /\ [](\A c \in Slots :
          Issued(c) =>
            /\ DOMAIN calls[c].env =
                 (DOMAIN processEnv) \cup WrapperSets(options)
            /\ \A n \in (DOMAIN processEnv) \ WrapperSets(options) :
                 calls[c].env[n] = processEnv[n])
  /\ [][processEnv' = processEnv]_vars

\* C24 witness: the caller's environment defines SESSH_JSON as "0" and
\* SESSH_PROXYJUMP; a call on a facade with no optional setting has a child
\* environment with PATH and SESSH_PROXYJUMP inherited and SESSH_JSON "1",
\* and the caller's environment still holds "0"
C24_Witness ==
  /\ Issued(1)
  /\ options.identity = None /\ options.proxyjump = None
  /\ processEnv = EnvWith({"SESSH_JSON", "SESSH_PROXYJUMP"})
  /\ processEnv["SESSH_JSON"] = "0"
  /\ calls[1].env["PATH"] = "/usr/bin"
  /\ calls[1].env["SESSH_PROXYJUMP"] = "callerhop"
  /\ calls[1].env["SESSH_JSON"] = "1"

\* the argument list of an operation, from the Session Configuration and the
\* operation's own argument alone
ArgsOf(op, opts, input) ==
  CASE op \in {"open", "status", "close"} -> portArgs(op, opts)
    [] op \in {"run", "keys"} -> textArgs(op, opts, input[1])
    [] op \in {"logs", "pane"} -> linesArgs(op, opts, input)

\* C25: the facade keeps no state between calls: whatever call came before
\* and however it ended, a spawning operation invokes spawn() with the binary,
\* argument list and environment determined by the Session Configuration, the
\* caller's environment and the operation's own argument alone; and no order
\* is enforced: whenever the caller is not inside a call, each of open, run,
\* logs, status, close, keys and pane can be called and spawns.
C25_NoStateBetweenCalls ==
  /\ \A c \in Slots :
       calls[c].op \in SpawningOps =>
         /\ calls[c].spawned = 1
         /\ calls[c].bin = sesshBin(options)
         /\ calls[c].env = childEnv(options, processEnv)
         /\ calls[c].args = ArgsOf(calls[c].op, options, calls[c].input)
  /\ (constructed /\ calls[1].phase = "idle" /\ nCalls < MaxCalls) =>
       \A b \in ConcBehaviours :
         /\ ENABLED open(1, b)
         /\ ENABLED run(1, "echo hi", b)
         /\ ENABLED logs(1, Some(50), b)
         /\ ENABLED status(1, b)
         /\ ENABLED close(1, b)
         /\ ENABLED keys(1, "echo hi", b)
         /\ ENABLED pane(1, None, b)

\* C25 witness: run() called after a close() that resolved has a child
\* running, with the request of a first run()
C25_Witness ==
  /\ calls[1].prev # None
  /\ calls[1].prev[1].op = "close"
  /\ calls[1].prev[1].outcome = "resolved"
  /\ calls[1].op = "run"
  /\ calls[1].phase = "running"
  /\ calls[1].children = 1
  /\ calls[1].args = <<"run", "agent", "user@host", "--", "echo hi">>

\* C26: the Session Configuration a facade uses is fixed at construction:
\* every invocation issues the binary, argument list and environment that
\* follow from the values passed to the constructor, even after the caller
\* has assigned to fields of the options object it passed.
C26_ConfigurationFixedAtConstruction ==
  \A c \in Slots :
    calls[c].op \in SpawningOps =>
      /\ calls[c].bin = sesshBin(optionsPassed)
      /\ calls[c].env = childEnv(optionsPassed, processEnv)
      /\ calls[c].args = ArgsOf(calls[c].op, optionsPassed, calls[c].input)

\* C27: when the exit code is 0 (reported by the child, or normalised from a
\* missing code) and the captured standard output is empty, the facade
\* method raises a decode failure, not an invocation failure: the message is
\* the fixed invalid-JSON text followed by nothing, no value is returned, and
\* the child's standard-error text is nowhere in the error.
C27_ExitZeroEmptyOutput ==
  \A c \in Slots :
    (/\ Mapped(c)
     /\ calls[c].exit \in {None, Some(0)}
     /\ calls[c].result[1].stdout = <<>>) =>
      /\ calls[c].result[1].code = 0
      /\ calls[c].outcome = "rejected"
      /\ calls[c].message = <<"Invalid JSON from sessh: ">>
      /\ calls[c].value = JNull
      /\ calls[c].result[1].stderr # <<>> =>
           ~Contains(calls[c].message, calls[c].result[1].stderr)

\* C27 witness: the child exits 0 having written only a newline to standard
\* output and "connection refused" to standard error
C27_Witness ==
  /\ Mapped(1)
  /\ calls[1].exit = Some(0)
  /\ calls[1].wroteOut = << <<"\n">> >>
  /\ calls[1].result[1].stdout = <<>>
  /\ calls[1].result[1].stderr = <<"connection", " ", "refused">>
  /\ calls[1].outcome = "rejected"
  /\ calls[1].message = <<"Invalid JSON from sessh: ">>

\* the payload {"ok":false, "op":"run"} as the child prints it
FailedRunPayload ==
  <<"{", "\"ok\"", ":", "false", ",", " ", "\"op\"", ":", "\"run\"", "}">>

====
